---- MODULE Spec2Model ----
(***************************************************************************)
(* Model of generate_report_fixed.py: the pipeline that reads three yearly *)
(* ranking tables, merges them by school name, computes trends and         *)
(* categories and renders the report.                                      *)
(*                                                                         *)
(* Text is a sequence of one-character strings.  Characters outside ASCII  *)
(* are written as two-character atoms ("u:" is u with diaeresis, "z^" is z *)
(* with caron); SHY is the soft hyphen U+00AD, EMDASH the em dash U+2014   *)
(* and COMB the combining diaeresis U+0308.                                *)
(*                                                                         *)
(* A float is an integer number of hundredths (250,55 is 25055): every     *)
(* numeral the specifications draw has at most two fractional digits.      *)
(***************************************************************************)
EXTENDS Integers, Sequences, FiniteSets, TLC

VARIABLES files, pc, data, schools_data, stats, html,
          disk, clock, faults, run, started

\* files: the rows of the three tables; pc: the statement the script is at;
\* data, schools_data, stats, html: the script's globals;
\* disk: which tables exist, the report file and the backup directory;
\* clock: the last second read from the local clock; faults: the file
\* operations that fail when attempted; run: the number of the invocation;
\* started: the disk as the invocation found it
vars == <<files, pc, data, schools_data, stats, html,
          disk, clock, faults, run, started>>

\* what the statements before the archival step leave alone
os == <<disk, clock, faults, run, started>>

----------------------------------------------------------------------------
(* Python values *)

SHY == "SHY"
EMDASH == "EMDASH"
COMB == "COMB:"

\* str.isspace() restricted to the alphabet of the model
Whitespace == {" "}

Digits == <<"0","1","2","3","4","5","6","7","8","9">>

UpperChars ==
    <<"A","B","C","D","E","F","G","H","I","J","K","L","M","N","O","P","Q","R","S","T","U","V","W","X","Y","Z","U:","O:","A:","O~","Z^">>

LowerChars ==
    <<"a","b","c","d","e","f","g","h","i","j","k","l","m","n","o","p","q","r","s","t","u","v","w","x","y","z","u:","o:","a:","o~","z^">>

\* the letters U+0308 composes with, and their precomposed forms
ComposeBase == <<"u","o","a","U","O","A">>

ComposeInto == <<"u:","o:","a:","U:","O:","A:">>

\* None and a present value; a float or an int is carried in v
None == [some |-> FALSE, v |-> 0]

Some(x) == [some |-> TRUE, v |-> x]

\* Python truthiness of an optional number: None and 0 are both false
Truthy(o) == o.some /\ o.v /= 0

\* a cell of a DataFrame row: NaN (an empty field) or a str
NaN == [nan |-> TRUE, s |-> <<>>]

Text(s) == [nan |-> FALSE, s |-> s]

IndexOf(c, seq) == CHOOSE i \in 1..Len(seq) : seq[i] = c

IsIn(c, seq) == \E i \in 1..Len(seq) : seq[i] = c

IsDigit(c) == IsIn(c, Digits)

DigitVal(c) == IndexOf(c, Digits) - 1

AllDigits(s) == \A i \in 1..Len(s) : IsDigit(s[i])

RECURSIVE IntVal(_)
IntVal(s) ==
    IF s = <<>> THEN 0
    ELSE IntVal(SubSeq(s, 1, Len(s) - 1)) * 10 + DigitVal(s[Len(s)])

RECURSIVE NatToStr(_)
NatToStr(n) ==
    IF n < 10 THEN <<Digits[n + 1]>>
    ELSE NatToStr(n \div 10) \o <<Digits[(n % 10) + 1]>>

\* str(n) of an int
IntToStr(n) == IF n < 0 THEN <<"-">> \o NatToStr(-n) ELSE NatToStr(n)

\* str.lower()
lower_char(c) == IF IsIn(c, UpperChars) THEN LowerChars[IndexOf(c, UpperChars)] ELSE c

lower(s) == [i \in 1..Len(s) |-> lower_char(s[i])]

RECURSIVE lstrip(_)
lstrip(s) ==
    IF s /= <<>> /\ s[1] \in Whitespace THEN lstrip(Tail(s)) ELSE s

RECURSIVE rstrip(_)
rstrip(s) ==
    IF s /= <<>> /\ s[Len(s)] \in Whitespace
    THEN rstrip(SubSeq(s, 1, Len(s) - 1)) ELSE s

\* str.strip()
strip(s) == rstrip(lstrip(s))

\* str.replace(old, new) for a one-character old
replace_char(s, old, new) == [i \in 1..Len(s) |-> IF s[i] = old THEN new ELSE s[i]]

remove_char(s, old) == SelectSeq(s, LAMBDA c : c /= old)

\* sub in s
Contains(sub, s) ==
    \E i \in 0..(Len(s) - Len(sub)) : SubSeq(s, i + 1, i + Len(sub)) = sub

\* unicodedata.normalize('NFC', s): a base letter followed by U+0308 composes
RECURSIVE nfc(_)
nfc(s) ==
    IF Len(s) < 2 THEN s
    ELSE IF s[2] = COMB /\ IsIn(s[1], ComposeBase)
         THEN <<ComposeInto[IndexOf(s[1], ComposeBase)]>> \o nfc(SubSeq(s, 3, Len(s)))
         ELSE <<s[1]>> \o nfc(Tail(s))

\* unicodedata.normalize('NFKC', s): no character of the alphabet has a
\* compatibility mapping, so only canonical composition acts
nfkc(s) == nfc(s)

\* float(s) of a str: surrounding whitespace, a sign, digits and one point
\* (the value in hundredths)
PyFloat(s) ==
    LET t == strip(s)
        signed == t /= <<>> /\ t[1] \in {"-", "+"}
        body == IF signed THEN Tail(t) ELSE t
        dots == {i \in 1..Len(body) : body[i] = "."}
        dot == IF dots = {} THEN Len(body) + 1 ELSE CHOOSE i \in dots : TRUE
        ip == SubSeq(body, 1, dot - 1)
        fp == SubSeq(body, dot + 1, Len(body))
        ok == /\ Cardinality(dots) <= 1
              /\ AllDigits(ip) /\ AllDigits(fp)
              /\ Len(ip) + Len(fp) > 0
        mag == IntVal(ip) * 100
                   + (IF Len(fp) >= 1 THEN DigitVal(fp[1]) * 10 ELSE 0)
                   + (IF Len(fp) >= 2 THEN DigitVal(fp[2]) ELSE 0)
    IN  IF ~ok THEN None
        ELSE Some(IF signed /\ t[1] = "-" THEN -mag ELSE mag)

\* int(s) of a str: surrounding whitespace, a sign and digits
PyInt(s) ==
    LET t == strip(s)
        signed == t /= <<>> /\ t[1] \in {"-", "+"}
        body == IF signed THEN Tail(t) ELSE t
    IN  IF body = <<>> \/ ~AllDigits(body) THEN None
        ELSE Some(IF signed /\ t[1] = "-" THEN -IntVal(body) ELSE IntVal(body))

\* int(x) of a float: truncation towards zero
TruncToInt(x) ==
    IF x >= 0 THEN x \div 100 ELSE -((-x) \div 100)

\* 2^k modulo 100
RECURSIVE Pow2Mod100(_)
Pow2Mod100(k) == IF k = 0 THEN 1 ELSE (2 * Pow2Mod100(k - 1)) % 100

\* the binary exponent of a hundredths (a > 0): the e with 2^e <= a/100 < 2^(e+1)
RECURSIVE Exponent(_, _, _)
Exponent(a, scaled, e) ==
    IF a >= 100
    THEN IF 2 * scaled <= a THEN Exponent(a, 2 * scaled, e + 1) ELSE e
    ELSE IF scaled >= 100 THEN e ELSE Exponent(a, 2 * scaled, e - 1)

\* where the double nearest to a hundredths lies: the remainder out of 100 that
\* rounding its 53-bit significand drops; 0 when the double is exact, below 50
\* when the double is smaller than a/100 and above 50 when it is greater
DoubleRemainder(a) ==
    LET e == IF a >= 100 THEN Exponent(a, 100, 0) ELSE Exponent(a, a, 0)
    IN  ((a % 100) * Pow2Mod100(52 - e)) % 100

\* the tenths f"{x:.1f}" prints for the double nearest to a hundredths: the
\* decimal expansion of the double correctly rounded, an exact tie to even
FormatTenths(a) ==
    LET q == a \div 10
        d == a % 10
        r == DoubleRemainder(a)
    IN  IF d < 5 THEN q
        ELSE IF d > 5 THEN q + 1
        ELSE IF r = 0 THEN (IF q % 2 = 0 THEN q ELSE q + 1)
        ELSE IF r > 50 THEN q + 1 ELSE q

----------------------------------------------------------------------------
(* Helpers of the script *)

\* the key normalizer with case folding added
normalize_school_name_folded(name) ==
    IF name.nan THEN <<>>
    ELSE lower(remove_char(nfc(strip(name.s)), SHY))

normalize_school_name(name) ==
    IF name.nan THEN <<>>
    ELSE remove_char(nfc(strip(name.s)), SHY)

\* the parser answering 0.0 for what float() rejects
parse_decimal_comma_zero(value) ==
    IF value.nan \/ value.s = <<>> \/ value.s = <<EMDASH>> THEN None
    ELSE LET f == PyFloat(replace_char(value.s, ",", "."))
         IN  IF f.some THEN f ELSE Some(0)

parse_decimal_comma(value) ==
    IF value.nan \/ value.s = <<>> \/ value.s = <<EMDASH>> THEN None
    ELSE PyFloat(replace_char(value.s, ",", "."))

\* the formatter cutting the second fractional digit off
format_score_truncated(score) ==
    IF ~score.some THEN <<EMDASH>>
    ELSE LET a == IF score.v < 0 THEN -score.v ELSE score.v
             sign == IF score.v < 0 THEN <<"-">> ELSE <<>>
             t == a \div 10
         IN  sign \o NatToStr(t \div 10) \o <<",">> \o <<Digits[(t % 10) + 1]>>

format_score(score) ==
    IF ~score.some THEN <<EMDASH>>
    ELSE LET a == IF score.v < 0 THEN -score.v ELSE score.v
             sign == IF score.v < 0 THEN <<"-">> ELSE <<>>
             t == IF a = 0 THEN 0 ELSE FormatTenths(a)
         IN  sign \o NatToStr(t \div 10) \o <<",">> \o <<Digits[(t % 10) + 1]>>

normalize(text) == lower(strip(nfkc(text)))


STR_TALLINN ==
    <<"t","a","l","l","i","n","n">>

EXTRA_TALLINN_SCHOOLS ==
    { <<"g","u","s","t","a","v"," ","a","d","o","l","f","i"," ","g","u:","m","n","a","a","s","i","u","m">>,
      <<"j","a","k","o","b"," ","w","e","s","t","h","o","l","m","i"," ","g","u:","m","n","a","a","s","i","u","m">>,
      <<"v","a","n","a","l","i","n","n","a"," ","h","a","r","i","d","u","s","k","o","l","l","e","e","g","i","u","m">>,
      <<"k","a","d","r","i","o","r","u"," ","s","a","k","s","a"," ","g","u:","m","n","a","a","s","i","u","m">>,
      <<"r","o","c","c","a"," ","a","l"," ","m","a","r","e"," ","k","o","o","l">>,
      <<"p","e","l","g","u","l","i","n","n","a"," ","g","u:","m","n","a","a","s","i","u","m">>,
      <<"p","i","r","i","t","a"," ","m","a","j","a","n","d","u","s","g","u:","m","n","a","a","s","i","u","m">>,
      <<"e","b","s"," ","g","u:","m","n","a","a","s","i","u","m">>,
      <<"a","u","d","e","n","t","e","s","e"," ","s","p","o","r","d","i","g","u:","m","n","a","a","s","i","u","m">> }

PRIVATE_SCHOOLS ==
    { <<"e","b","s"," ","g","u:","m","n","a","a","s","i","u","m">>,
      <<"r","o","c","c","a"," ","a","l"," ","m","a","r","e"," ","k","o","o","l">>,
      <<"a","u","d","e","n","t","e","s","e"," ","s","p","o","r","d","i","g","u:","m","n","a","a","s","i","u","m">> }

\* the markers of the "Excellent & Accessible" filter
accessible_competitive ==
    { <<"T","a","l","l","i","n","n","a"," ","R","e","a","a","l","k","o","o","l">>,
      <<"T","a","l","l","i","n","n","a"," ","I","n","g","l","i","s","e"," ","K","o","l","l","e","d","z^">>,
      <<"G","u","s","t","a","v"," ","A","d","o","l","f","i">>,
      <<"T","a","l","l","i","n","n","a"," ","P","r","a","n","t","s","u","s","e">>,
      <<"T","a","l","l","i","n","n","a"," ","2","1","."," ","K","o","o","l">>,
      <<"K","a","d","r","i","o","r","u"," ","S","a","k","s","a">> }

\* the markers of the table rows and of the application strategy
highly_competitive ==
    { <<"T","a","l","l","i","n","n","a"," ","R","e","a","a","l","k","o","o","l">>,
      <<"T","a","l","l","i","n","n","a"," ","I","n","g","l","i","s","e"," ","K","o","l","l","e","d","z^">>,
      <<"G","u","s","t","a","v"," ","A","d","o","l","f","i"," ","G","u:","m","n","a","a","s","i","u","m">>,
      <<"T","a","l","l","i","n","n","a"," ","P","r","a","n","t","s","u","s","e"," ","L","u:","t","s","e","u","m">>,
      <<"T","a","l","l","i","n","n","a"," ","2","1","."," ","K","o","o","l">>,
      <<"K","a","d","r","i","o","r","u"," ","S","a","k","s","a"," ","G","u:","m","n","a","a","s","i","u","m">> }

NOT_AVAILABLE == <<"N","/","A">>

is_tallinn_school(school_name) ==
    IF school_name = <<>> THEN FALSE
    ELSE LET name == normalize(school_name)
         IN  \/ Contains(STR_TALLINN, name)
             \/ \E exc \in EXTRA_TALLINN_SCHOOLS : Contains(exc, name)

is_private_school(school_name) ==
    IF school_name = <<>> THEN FALSE
    ELSE LET name == normalize(school_name)
         IN  \E private_school \in PRIVATE_SCHOOLS : Contains(private_school, name)

Years == {"2018", "2023", "2024"}

\* the value stored under data[school] for one row
yearly_record(row) ==
    [Place |-> row.Place,
     Kokku |-> parse_decimal_comma(row.Kokku),
     Math |-> parse_decimal_comma(row.Matemaatika),
     Estonian |-> parse_decimal_comma(row.EestiKeel),
     English |-> parse_decimal_comma(row.IngliseKeel)]

EmptyData == [k \in {} |-> None]

\* the iteration keeping the entry a name already has
read_row_first_wins(d, row) ==
    LET school == normalize_school_name(row.Kool)
    IN  IF school /= <<>> /\ is_tallinn_school(school) /\ school \notin DOMAIN d
        THEN [k \in (DOMAIN d) \cup {school} |->
                 IF k = school THEN yearly_record(row) ELSE d[k]]
        ELSE d

\* one iteration of the loop over df.iterrows()
read_row(d, row) ==
    LET school == normalize_school_name(row.Kool)
    IN  IF school /= <<>> /\ is_tallinn_school(school)
        THEN [k \in (DOMAIN d) \cup {school} |->
                 IF k = school THEN yearly_record(row) ELSE d[k]]
        ELSE d

RECURSIVE read_rows(_, _)
read_rows(rows, d) ==
    IF rows = <<>> THEN d ELSE read_rows(Tail(rows), read_row(d, Head(rows)))

read_csv_data(rows) == read_rows(rows, EmptyData)

format_place(place) ==
    IF place.nan \/ place.s = <<EMDASH>> THEN <<EMDASH>>
    ELSE LET f == PyFloat(place.s)
         IN  IF f.some THEN IntToStr(TruncToInt(f.v)) ELSE place.s

\* dict.get(school, {}).get(field, default) of one year's dataset
get_place(d, school) ==
    IF school \in DOMAIN d THEN d[school].Place ELSE Text(<<EMDASH>>)

get_score(d, school, field) ==
    IF school \in DOMAIN d THEN d[school][field] ELSE None

school_record(dat, school) ==
    [School |-> school,
     Place_2018 |-> format_place(get_place(dat["2018"], school)),
     Place_2023 |-> format_place(get_place(dat["2023"], school)),
     Place_2024 |-> format_place(get_place(dat["2024"], school)),
     Kokku_2018 |-> get_score(dat["2018"], school, "Kokku"),
     Kokku_2023 |-> get_score(dat["2023"], school, "Kokku"),
     Kokku_2024 |-> get_score(dat["2024"], school, "Kokku"),
     Math_2018 |-> get_score(dat["2018"], school, "Math"),
     Math_2023 |-> get_score(dat["2023"], school, "Math"),
     Math_2024 |-> get_score(dat["2024"], school, "Math"),
     Estonian_2018 |-> get_score(dat["2018"], school, "Estonian"),
     Estonian_2023 |-> get_score(dat["2023"], school, "Estonian"),
     Estonian_2024 |-> get_score(dat["2024"], school, "Estonian"),
     English_2018 |-> get_score(dat["2018"], school, "English"),
     English_2023 |-> get_score(dat["2023"], school, "English"),
     English_2024 |-> get_score(dat["2024"], school, "English")]

\* the names of the newest dataset only
all_schools_newest(dat) == DOMAIN dat["2024"]

all_schools(dat) == UNION {DOMAIN dat[y] : y \in Years}

\* the orders in which a set can be iterated
RECURSIVE Orders(_)
Orders(S) ==
    IF S = {} THEN {<<>>}
    ELSE UNION {{<<x>> \o p : p \in Orders(S \ {x})} : x \in S}

\* the key of schools_data.sort
sort_key(x) == IF Truthy(x.Kokku_2024) THEN x.Kokku_2024.v ELSE -100

\* the key of the sorts of the recommendation lists
score_key(x) == x.Kokku_2024.v

\* list.sort(reverse=True) on <<key, item>> pairs: descending and stable
RECURSIVE insert_desc(_, _)
insert_desc(sorted, x) ==
    IF sorted = <<>> THEN <<x>>
    ELSE IF Head(sorted)[1] >= x[1]
         THEN <<Head(sorted)>> \o insert_desc(Tail(sorted), x)
         ELSE <<x>> \o sorted

RECURSIVE sort_pairs(_)
sort_pairs(pairs) ==
    IF pairs = <<>> THEN <<>>
    ELSE insert_desc(sort_pairs(SubSeq(pairs, 1, Len(pairs) - 1)), pairs[Len(pairs)])

\* list.sort(key=..., reverse=True), keys[i] being the key of list[i]
sort_desc(list, keys) ==
    LET sorted == sort_pairs([i \in 1..Len(list) |-> <<keys[i], list[i]>>])
    IN  [i \in 1..Len(list) |-> sorted[i][2]]

\* the keys of the three sorts
sort_keys(list) == [i \in 1..Len(list) |-> sort_key(list[i])]

score_keys(list) == [i \in 1..Len(list) |-> score_key(list[i])]

parse_place(place_str) ==
    IF place_str = <<EMDASH>> THEN None ELSE PyInt(place_str)

score_trend(older, recent) ==
    IF Truthy(older) /\ Truthy(recent) THEN Some(recent.v - older.v) ELSE None

place_change(older, recent) ==
    IF Truthy(older) /\ Truthy(recent) THEN Some(older.v - recent.v) ELSE None

\* the breakpoints taken as exclusive
category_of_exclusive(kokku) ==
    IF ~kokku.some THEN "no-data"
    ELSE IF kokku.v > 25000 THEN "excellent"
    ELSE IF kokku.v > 20000 THEN "very-good"
    ELSE IF kokku.v > 15000 THEN "good"
    ELSE "average"

\* thresholds in tenths
category_of(kokku) ==
    IF ~kokku.some THEN "no-data"
    ELSE IF kokku.v >= 25000 THEN "excellent"
    ELSE IF kokku.v >= 20000 THEN "very-good"
    ELSE IF kokku.v >= 15000 THEN "good"
    ELSE "average"

\* place_change_1yr or 0
place_trend_of(change) == IF Truthy(change) THEN change.v ELSE 0

\* the threshold taken as inclusive
trend_cat_of_inclusive(place_trend) ==
    IF place_trend >= 5 THEN "improving"
    ELSE IF place_trend <= -5 THEN "declining"
    ELSE "stable"

trend_cat_of(place_trend) ==
    IF place_trend > 5 THEN "improving"
    ELSE IF place_trend < -5 THEN "declining"
    ELSE "stable"

trend_arrow_of(place_trend) ==
    IF place_trend > 5 THEN "up-right"
    ELSE IF place_trend < -5 THEN "down-right"
    ELSE "right"

\* the body of the loop that calculates trends and categories
calculate(school) ==
    LET place_2018 == parse_place(school.Place_2018)
        place_2023 == parse_place(school.Place_2023)
        place_2024 == parse_place(school.Place_2024)
        change_1yr == place_change(place_2023, place_2024)
    IN  school @@
        [trend_1yr |-> score_trend(school.Kokku_2023, school.Kokku_2024),
         trend_6yr |-> score_trend(school.Kokku_2018, school.Kokku_2024),
         place_change_6yr |-> place_change(place_2018, place_2024),
         place_change_1yr |-> change_1yr,
         category |-> category_of(school.Kokku_2024),
         is_private |-> is_private_school(school.School),
         trend_cat |-> trend_cat_of(place_trend_of(change_1yr)),
         trend_arrow |-> trend_arrow_of(place_trend_of(change_1yr))]

\* max(..., key=Kokku_2024, default=...): the first maximum; the report reads
\* only School and Kokku_2024 of it
top_performer(list) ==
    LET cand == {i \in 1..Len(list) : Truthy(list[i].Kokku_2024)}
    IN  IF cand = {} THEN [School |-> NOT_AVAILABLE, Kokku_2024 |-> Some(0)]
        ELSE LET best == CHOOSE i \in cand :
                           /\ \A j \in cand : list[j].Kokku_2024.v <= list[i].Kokku_2024.v
                           /\ \A j \in cand : j < i => list[j].Kokku_2024.v < list[i].Kokku_2024.v
             IN  [School |-> list[best].School, Kokku_2024 |-> list[best].Kokku_2024]

statistics(list) ==
    [total_schools |-> Len(list),
     top_performer |-> top_performer(list),
     excellent_count |-> Len(SelectSeq(list, LAMBDA s : s.category = "excellent")),
     improving_count |-> Len(SelectSeq(list, LAMBDA s : s.trend_cat = "improving"))]

\* list[:n]
first_n(list, n) == SubSeq(list, 1, IF Len(list) < n THEN Len(list) ELSE n)

matches_any(markers, name) == \E comp \in markers : Contains(comp, name)

\* the rank of a list entry without its N/A substitution
national_rank_as_stored(school) == school.Place_2024

national_rank(school) ==
    IF school.Place_2024 /= <<EMDASH>> THEN school.Place_2024 ELSE NOT_AVAILABLE

place_trend_key(x) == place_trend_of(x.place_change_1yr)

place_trend_keys(list) == [i \in 1..Len(list) |-> place_trend_key(list[i])]

\* the filter without its private-school test
accessible_excellent_with_private(list) ==
    LET kept == SelectSeq(list, LAMBDA s :
                  /\ s.category \in {"very-good"}
                  /\ Truthy(s.Kokku_2024)
                  /\ ~matches_any(accessible_competitive, s.School))
    IN  sort_desc(kept, score_keys(kept))

accessible_excellent(list) ==
    LET kept == SelectSeq(list, LAMBDA s :
                  /\ s.category \in {"very-good"}
                  /\ Truthy(s.Kokku_2024)
                  /\ ~matches_any(accessible_competitive, s.School)
                  /\ ~s.is_private)
    IN  sort_desc(kept, score_keys(kept))

improving_schools(list) ==
    LET kept == SelectSeq(list, LAMBDA s :
                  /\ s.trend_cat = "improving"
                  /\ Truthy(s.Kokku_2024)
                  /\ ~s.is_private)
    IN  sort_desc(kept, place_trend_keys(kept))

solid_schools(list) ==
    LET kept == SelectSeq(list, LAMBDA s :
                  /\ s.category \in {"good"}
                  /\ Truthy(s.Kokku_2024)
                  /\ s.trend_cat = "stable"
                  /\ ~s.is_private)
    IN  sort_desc(kept, score_keys(kept))

accessible_schools(list) ==
    LET kept == SelectSeq(list, LAMBDA s :
                  /\ s.category \in {"very-good", "good"}
                  /\ ~matches_any(highly_competitive, s.School)
                  /\ Truthy(s.Kokku_2024)
                  /\ ~s.is_private)
    IN  sort_desc(kept, score_keys(kept))

\* the list items "<School> - <score> points (National #<rank>)"
score_item(school) ==
    [School |-> school.School,
     score |-> format_score(school.Kokku_2024),
     national_rank |-> national_rank(school)]

score_items(list) == [i \in 1..Len(list) |-> score_item(list[i])]

\* the list items "<School> - National #<rank> (+<change> places improvement)"
improving_item(school) ==
    [School |-> school.School,
     national_rank |-> national_rank(school),
     place_change |-> IntToStr(place_trend_of(school.place_change_1yr))]

improving_items(list) == [i \in 1..Len(list) |-> improving_item(list[i])]

\* the items "<School> (#<rank>)" of the application strategy
rank_item(school) ==
    [School |-> school.School, national_rank |-> national_rank(school)]

\* category.title().replace('-', ' ')
category_label(category) ==
    CASE category = "excellent" -> "Excellent"
      [] category = "very-good" -> "Very Good"
      [] category = "good" -> "Good"
      [] category = "average" -> "Average"
      [] category = "no-data" -> "No Data"

place_cell(place) == IF place /= <<EMDASH>> THEN place ELSE <<EMDASH>>

\* the row with the highly-competitive test ahead of the private-school test
table_row_competitive_first(school) ==
    LET is_competitive == matches_any(highly_competitive, school.School)
        is_private == school.is_private
    IN  [row_class |-> IF is_competitive THEN "highly-competitive"
                       ELSE IF is_private THEN "private-school" ELSE "",
         school_name |-> school.School,
         name_tag |-> IF is_competitive THEN "star"
                      ELSE IF is_private THEN "briefcase" ELSE "",
         place_2018 |-> place_cell(school.Place_2018),
         place_2023 |-> place_cell(school.Place_2023),
         place_2024 |-> place_cell(school.Place_2024),
         trend_class |-> school.trend_cat,
         trend_arrow |-> school.trend_arrow,
         total |-> format_score(school.Kokku_2024),
         math |-> format_score(school.Math_2024),
         estonian |-> format_score(school.Estonian_2024),
         english |-> format_score(school.English_2024),
         category |-> school.category,
         performance |-> IF is_competitive THEN "Highly Competitive"
                         ELSE IF is_private THEN "Private School"
                         ELSE category_label(school.category)]

table_row(school) ==
    LET is_competitive == matches_any(highly_competitive, school.School)
        is_private == school.is_private
    IN  [row_class |-> IF is_private THEN "private-school"
                       ELSE IF is_competitive THEN "highly-competitive" ELSE "",
         school_name |-> school.School,
         name_tag |-> IF is_private THEN "briefcase"
                      ELSE IF is_competitive THEN "star" ELSE "",
         place_2018 |-> place_cell(school.Place_2018),
         place_2023 |-> place_cell(school.Place_2023),
         place_2024 |-> place_cell(school.Place_2024),
         trend_class |-> school.trend_cat,
         trend_arrow |-> school.trend_arrow,
         total |-> format_score(school.Kokku_2024),
         math |-> format_score(school.Math_2024),
         estonian |-> format_score(school.Estonian_2024),
         english |-> format_score(school.English_2024),
         category |-> school.category,
         performance |-> IF is_private THEN "Private School"
                         ELSE IF is_competitive THEN "Highly Competitive"
                         ELSE category_label(school.category)]

\* the items of the "Recommended Application List"
strategy_items(list) ==
    LET acc == accessible_schools(list)
        improving_accessible ==
            first_n(SelectSeq(improving_schools(list), LAMBDA s :
                        /\ ~matches_any(highly_competitive, s.School)
                        /\ ~s.is_private), 2)
    IN  IF acc = <<>> THEN <<>>
        ELSE <<[label |-> "Top Choice", items |-> <<rank_item(acc[1])>>]>>
             \o (IF Len(acc) > 2
                 THEN <<[label |-> "Solid Options",
                         items |-> <<rank_item(acc[2]), rank_item(acc[3])>>]>>
                 ELSE <<>>)
             \o (IF improving_accessible /= <<>>
                 THEN <<[label |-> "Rising Stars",
                         items |-> [i \in 1..Len(improving_accessible) |->
                                      rank_item(improving_accessible[i])]]>>
                 ELSE <<>>)

\* the interpolated parts of html_content
render(list, st) ==
    [total_schools |-> st.total_schools,
     best_score |-> format_score(st.top_performer.Kokku_2024),
     best_school |-> st.top_performer.School,
     excellent_count |-> st.excellent_count,
     improving_count |-> st.improving_count,
     rec_excellent |-> score_items(first_n(accessible_excellent(list), 3)),
     rec_improving |-> improving_items(first_n(improving_schools(list), 4)),
     rec_solid |-> score_items(first_n(solid_schools(list), 4)),
     table |-> [i \in 1..Len(list) |-> table_row(list[i])],
     strategy |-> strategy_items(list)]

NoStats ==
    [total_schools |-> 0,
     top_performer |-> [School |-> <<>>, Kokku_2024 |-> None],
     excellent_count |-> 0,
     improving_count |-> 0]

NoHtml ==
    [total_schools |-> 0, best_score |-> <<>>, best_school |-> <<>>,
     excellent_count |-> 0, improving_count |-> 0,
     rec_excellent |-> <<>>, rec_improving |-> <<>>, rec_solid |-> <<>>,
     table |-> <<>>, strategy |-> <<>>]

\* the last second the local clock can show
MaxClock == 2

\* the number of invocations followed
MaxRuns == 2

\* a path that holds no file
NoFile == [exists |-> FALSE, complete |-> FALSE, content |-> NoHtml]

\* a file written to its end
File(content) == [exists |-> TRUE, complete |-> TRUE, content |-> content]

\* a file opened for writing whose write did not finish
PartialFile == [exists |-> TRUE, complete |-> FALSE, content |-> NoHtml]

\* the three tables and nothing else
FreshDisk ==
    [sources |-> Years, report |-> NoFile, backup_dir |-> FALSE,
     backups |-> [t \in {} |-> NoFile]]

\* the archival step with one fixed backup name in place of the timestamp
backup_previous_report_untimed(d, stamp, moves) ==
    IF ~d.report.exists THEN d
    ELSE IF ~moves THEN [d EXCEPT !.backup_dir = TRUE]
    ELSE [d EXCEPT !.backup_dir = TRUE,
                   !.backups = (0 :> d.report) @@ d.backups,
                   !.report = NoFile]

\* the disk after backup_previous_report: the directory is made before the
\* move, and the move replaces a backup of the same second
backup_previous_report(d, stamp, moves) ==
    IF ~d.report.exists THEN d
    ELSE IF ~moves THEN [d EXCEPT !.backup_dir = TRUE]
    ELSE [d EXCEPT !.backup_dir = TRUE,
                   !.backups = (stamp :> d.report) @@ d.backups,
                   !.report = NoFile]

\* the disk after the write of the report: open(..., 'w') creates or
\* truncates the file before anything is written
write_report(d, content, failing) ==
    IF "open" \in failing THEN d
    ELSE IF "write" \in failing THEN [d EXCEPT !.report = PartialFile]
    ELSE [d EXCEPT !.report = File(content)]

----------------------------------------------------------------------------
(* The script, statement by statement *)

\* pd.read_csv raises FileNotFoundError for a table that is not there, and
\* the script ends with the traceback
ReadCsv(year, here, next) ==
    /\ pc = here
    /\ data' = IF year \in disk.sources
               THEN [data EXCEPT ![year] = read_csv_data(files[year])]
               ELSE data
    /\ pc' = IF year \in disk.sources THEN next ELSE "failed"
    /\ UNCHANGED <<files, schools_data, stats, html, os>>

Read2018 == ReadCsv("2018", "read_2018", "read_2023")

Read2023 == ReadCsv("2023", "read_2023", "read_2024")

Read2024 == ReadCsv("2024", "read_2024", "consolidate")

\* the union of the names, one record per name in the iteration order of the
\* set, then the sort by 2024 total score
Consolidate ==
    /\ pc = "consolidate"
    /\ \E order \in Orders(all_schools(data)) :
          LET built == [i \in 1..Len(order) |-> school_record(data, order[i])]
          IN  schools_data' = sort_desc(built, sort_keys(built))
    /\ pc' = "calculate"
    /\ UNCHANGED <<files, data, stats, html, os>>

Calculate ==
    /\ pc = "calculate"
    /\ schools_data' = [i \in 1..Len(schools_data) |-> calculate(schools_data[i])]
    /\ pc' = "statistics"
    /\ UNCHANGED <<files, data, stats, html, os>>

Statistics ==
    /\ pc = "statistics"
    /\ stats' = statistics(schools_data)
    /\ pc' = "render"
    /\ UNCHANGED <<files, data, schools_data, html, os>>

Render ==
    /\ pc = "render"
    /\ html' = render(schools_data, stats)
    /\ pc' = "backup"
    /\ UNCHANGED <<files, data, schools_data, stats, os>>

\* backup_previous_report(report_filename): datetime.now() is read only when
\* a previous report exists; a failed shutil.move ends the script
Backup ==
    /\ pc = "backup"
    /\ \E stamp \in (IF disk.report.exists THEN clock..MaxClock ELSE {clock}) :
          /\ clock' = stamp
          /\ disk' = backup_previous_report(disk, stamp, "move" \notin faults)
    /\ pc' = IF disk.report.exists /\ "move" \in faults THEN "failed" ELSE "write"
    /\ UNCHANGED <<files, data, schools_data, stats, html, faults, run, started>>

\* with open(report_filename, 'w') as f: f.write(html_content)
Write ==
    /\ pc = "write"
    /\ disk' = write_report(disk, html, faults)
    /\ pc' = IF faults \cap {"open", "write"} = {} THEN "done" ELSE "failed"
    /\ UNCHANGED <<files, data, schools_data, stats, html, clock, faults, run, started>>

\* one invocation of the script
Next ==
    \/ Read2018
    \/ Read2023
    \/ Read2024
    \/ Consolidate
    \/ Calculate
    \/ Statistics
    \/ Render
    \/ Backup
    \/ Write

\* the script is invoked again, on the disk the last invocation left
Rerun ==
    /\ pc \in {"done", "failed"}
    /\ run < MaxRuns
    /\ run' = run + 1
    /\ started' = disk
    /\ pc' = "read_2018"
    /\ data' = [y \in Years |-> EmptyData]
    /\ schools_data' = <<>>
    /\ stats' = NoStats
    /\ html' = NoHtml
    /\ UNCHANGED <<files, disk, clock, faults>>

\* the state of a fresh process over the given tables and disk
InitOn(inputs, disks, faultsets) ==
    /\ files \in inputs
    /\ pc = "read_2018"
    /\ data = [y \in Years |-> EmptyData]
    /\ schools_data = <<>>
    /\ stats = NoStats
    /\ html = NoHtml
    /\ disk \in disks
    /\ started = disk
    /\ clock = 0
    /\ faults \in faultsets
    /\ run = 1

\* all three tables present, no report written yet, no failing operation
InitWith(inputs) == InitOn(inputs, {FreshDisk}, {{}})

----------------------------------------------------------------------------
(* Inputs *)

NameReaalkool ==
    <<"T","a","l","l","i","n","n","a"," ","R","e","a","a","l","k","o","o","l">>

NameReaalkoolUpper ==
    <<"T","A","L","L","I","N","N","A"," ","R","E","A","A","L","K","O","O","L">>

NameArte ==
    <<"T","a","l","l","i","n","n","a"," ","A","r","t","e"," ","G","u:","m","n","a","a","s","i","u","m">>

NameKeskkool ==
    <<"T","a","l","l","i","n","n","a"," ","3","2","."," ","K","e","s","k","k","o","o","l">>

NameUhis ==
    <<"T","a","l","l","i","n","n","a"," ","U:","h","i","s","g","u:","m","n","a","a","s","i","u","m">>

NamePelgulinna ==
    <<"P","e","l","g","u","l","i","n","n","a"," ","G","u:","m","n","a","a","s","i","u","m">>

NameRocca ==
    <<"R","o","c","c","a"," ","a","l"," ","M","a","r","e"," ","K","o","o","l">>

NameTartu ==
    <<"T","a","r","t","u"," ","J","a","a","n"," ","P","o","s","k","a"," ","G","u:","m","n","a","a","s","i","u","m">>

Row(kool, place, kokku, subjects) ==
    [Kool |-> kool, Place |-> place, Kokku |-> kokku,
     Matemaatika |-> subjects[1], EestiKeel |-> subjects[2], IngliseKeel |-> subjects[3]]

\* the three files, each drawn from its own set of row sequences
FilesOf(F2018, F2023, F2024) ==
    {[y \in Years |-> CASE y = "2018" -> a [] y = "2023" -> b [] y = "2024" -> c] :
        a \in F2018, b \in F2023, c \in F2024}

SeqsUpTo(S, n) == UNION {[1..k -> S] : k \in 0..n}

SubjectsPresent == <<Text(<<"7","1",",","5">>), Text(<<"8","0">>), Text(<<"9","0",",","1">>)>>

SubjectsAbsent == <<NaN, Text(<<EMDASH>>), Text(<<"x">>)>>

----------------------------------------------------------------------------
(* Spec: four names over the three years.  The 2024 file holds up to       *)
(* MaxRows rows, each older file at most one.                              *)

MaxRows == 2

MergeNames == <<NameReaalkool, NameReaalkoolUpper, NameArte, NameTartu>>

YearDigit(y) == CASE y = "2018" -> "1" [] y = "2023" -> "2" [] y = "2024" -> "3"

\* a row's rank and score tell its name and year apart
MergeRow(i, y) ==
    Row(Text(MergeNames[i]),
        Text(<<YearDigit(y), Digits[i + 1]>>),
        Text(<<"2", YearDigit(y), Digits[i + 1], ",", "5">>),
        SubjectsPresent)

\* a 2024 row of the third name whose rank and scores are no numbers
MergeBadRow == Row(Text(MergeNames[3]), Text(<<"x">>), Text(<<"x">>), SubjectsAbsent)

MergeRows(y) ==
    {MergeRow(i, y) : i \in 1..Len(MergeNames)}
        \cup (IF y = "2024" THEN {MergeBadRow} ELSE {})

MergeFiles ==
    FilesOf(SeqsUpTo(MergeRows("2018"), 1),
            SeqsUpTo(MergeRows("2023"), 1),
            SeqsUpTo(MergeRows("2024"), MaxRows))

Init == InitWith(MergeFiles)

Spec == Init /\ [][Next]_vars

----------------------------------------------------------------------------
(* SpecRecord: one school with every shape of rank and score cell; its     *)
(* 2024 row is followed by the row of a second school                      *)

PlaceCells ==
    {NaN, Text(<<EMDASH>>), Text(<<"x">>), Text(<<"3">>), Text(<<"8",".","0">>), Text(<<"9">>)}

KokkuCells ==
    {NaN, Text(<<EMDASH>>), Text(<<"x">>), Text(<<"0">>),
     Text(<<"1","4","9",",","9">>), Text(<<"1","5","0">>),
     Text(<<"1","9","9",",","9">>), Text(<<"2","0","0">>),
     Text(<<"2","4","9",",","9">>), Text(<<"2","5","0",",","0">>)}

OlderPlaceCells == {Text(<<EMDASH>>), Text(<<"3">>), Text(<<"1","4">>)}

OlderKokkuCells == {Text(<<"0">>), Text(<<"2","1","0",",","5">>)}

CompanionRow ==
    Row(Text(NameKeskkool), Text(<<"2","0">>), Text(<<"1","6","0">>), SubjectsPresent)

RecordFiles ==
    LET older == SeqsUpTo({Row(Text(NameArte), p, k, SubjectsPresent) :
                              p \in OlderPlaceCells, k \in OlderKokkuCells}, 1)
        newest == {<<>>} \cup
                  {<<Row(Text(NameArte), p, k, s), CompanionRow>> :
                      p \in PlaceCells, k \in KokkuCells,
                      s \in {SubjectsPresent, SubjectsAbsent}}
    IN  FilesOf(older, older, newest)

InitRecord == InitWith(RecordFiles)

SpecRecord == InitRecord /\ [][Next]_vars

----------------------------------------------------------------------------
(* SpecRanking: up to MaxSchools schools in one table.  Each school is     *)
(* left out, listed in 2018 only, or listed in 2024 with one of its scores *)

MaxSchools == 5

RankingNames == <<NameArte, NameKeskkool, NameUhis, NamePelgulinna, NameReaalkool, NameRocca>>

OLD == <<"o","l","d">>

\* per school: the 2024 total scores it may have; OLD stands for a row in
\* the 2018 file only
RankingScores ==
    << {<<"0">>, <<"2","0","5">>, <<"2","1","0",",","5">>},
       {<<EMDASH>>, <<"2","0","5">>, <<"2","1","0",",","5">>},
       {OLD, <<"2","0","5">>},
       {<<"2","1","0",",","5">>, <<"2","2","0">>},
       {<<"2","1","5">>},
       {<<"2","1","5">>} >>

RankingChoices ==
    {c \in [1..Len(RankingNames) -> UNION {RankingScores[i] : i \in 1..Len(RankingNames)} \cup {<<>>}] :
        /\ \A i \in 1..Len(RankingNames) : c[i] = <<>> \/ c[i] \in RankingScores[i]
        /\ Cardinality({i \in 1..Len(RankingNames) : c[i] /= <<>>}) <= MaxSchools}

RankingRow(i, kokku) ==
    Row(Text(RankingNames[i]), Text(<<"1", Digits[i + 1]>>), Text(kokku), SubjectsPresent)

\* the rows of choice c that go to the 2018 file (old) or to the 2024 file,
\* in the order of RankingNames
RECURSIVE RankingRows(_, _, _)
RankingRows(c, i, old) ==
    IF i > Len(RankingNames) THEN <<>>
    ELSE (IF c[i] /= <<>> /\ ((c[i] = OLD) = old)
          THEN <<RankingRow(i, c[i])>> ELSE <<>>)
         \o RankingRows(c, i + 1, old)

RankingFiles ==
    {[y \in Years |->
         CASE y = "2018" -> RankingRows(c, 1, TRUE)
           [] y = "2023" -> <<>>
           [] y = "2024" -> RankingRows(c, 1, FALSE)] : c \in RankingChoices}

InitRanking == InitWith(RankingFiles)

SpecRanking == InitRanking /\ [][Next]_vars

----------------------------------------------------------------------------
(* SpecNames: one row whose name is a school name between two paddings of  *)
(* up to MaxPad characters, or is no string at all                         *)

MaxPad == 2

PadChars == {" ", SHY, COMB}

NameCells ==
    {NaN} \cup {Text(pre \o NameArte \o suf) :
                   pre \in SeqsUpTo(PadChars, MaxPad), suf \in SeqsUpTo(PadChars, MaxPad)}

NamesFiles ==
    FilesOf({<<>>}, {<<>>},
            {<<Row(kool, Text(<<"7">>), Text(<<"2","1","0",",","5">>), SubjectsPresent)>> :
                kool \in NameCells})

InitNames == InitWith(NamesFiles)

SpecNames == InitNames /\ [][Next]_vars

----------------------------------------------------------------------------
(* SpecLabels: up to MaxLabelRows rows of schools that are private, highly *)
(* competitive, both, or neither, each with a very good or excellent score *)

MaxLabelRows == 2

NameRoccaReaalkool ==
    <<"R","o","c","c","a"," ","a","l"," ","M","a","r","e"," ","K","o","o","l"," ","T","a","l","l","i","n","n","a"," ","R","e","a","a","l","k","o","o","l">>

NamePrantsuseKool ==
    <<"T","a","l","l","i","n","n","a"," ","P","r","a","n","t","s","u","s","e"," ","K","o","o","l">>

NamePrantsuse ==
    <<"T","a","l","l","i","n","n","a"," ","P","r","a","n","t","s","u","s","e"," ","L","u:","t","s","e","u","m">>

LabelNames ==
    {NameArte, NameRocca, NameReaalkool, NameRoccaReaalkool, NamePrantsuse, NamePrantsuseKool}

LabelScores == {<<"2","1","0",",","5">>, <<"2","6","0">>}

LabelFiles ==
    FilesOf({<<>>}, {<<>>},
            SeqsUpTo({Row(Text(n), Text(<<"1","2">>), Text(k), SubjectsPresent) :
                         n \in LabelNames, k \in LabelScores}, MaxLabelRows))

InitLabels == InitWith(LabelFiles)

SpecLabels == InitLabels /\ [][Next]_vars

----------------------------------------------------------------------------
(* SpecScores: one school whose total score is any decimal-comma numeral   *)
(* with a sign or none, one of three integer parts and up to two           *)
(* fractional digits                                                       *)

ScoreSigns == {<<>>, <<"-">>}

ScoreIntegerParts == {<<"0">>, <<"7">>, <<"2","5","0">>}

ScoreFractionDigits == {"0", "4", "5", "6", "9"}

ScoreFractions ==
    {<<>>} \cup {<<",">> \o f : f \in SeqsUpTo(ScoreFractionDigits, 2)}

ScoreCells ==
    {Text(sg \o ip \o fr) : sg \in ScoreSigns, ip \in ScoreIntegerParts, fr \in ScoreFractions}

ScoreFiles ==
    FilesOf({<<>>}, {<<>>},
            {<<Row(Text(NameArte), Text(<<"7">>), k, SubjectsPresent)>> : k \in ScoreCells})

InitScores == InitWith(ScoreFiles)

SpecScores == InitScores /\ [][Next]_vars

----------------------------------------------------------------------------
(* SpecDuplicates: a 2024 table of up to MaxDuplicateRows rows in which a  *)
(* school may be listed several times, its name written with or without a  *)
(* soft hyphen and a leading space, with different ranks and scores        *)

MaxDuplicateRows == 3

DuplicateNames == {NameArte, <<" ", SHY>> \o NameArte, NameKeskkool}

DuplicateValues ==
    {<<Text(<<"3">>), Text(<<"2","1","0",",","5">>), SubjectsPresent>>,
     <<Text(<<"4">>), Text(<<EMDASH>>), SubjectsAbsent>>}

DuplicateFiles ==
    FilesOf({<<>>}, {<<>>},
            SeqsUpTo({Row(Text(n), v[1], v[2], v[3]) :
                         n \in DuplicateNames, v \in DuplicateValues}, MaxDuplicateRows))

InitDuplicates == InitWith(DuplicateFiles)

SpecDuplicates == InitDuplicates /\ [][Next]_vars

----------------------------------------------------------------------------
(* SpecRuns: up to MaxRuns invocations over the same tables.  A table may  *)
(* be missing, an earlier report and the backup directory may be there,    *)
(* and the move, the open or the write may fail                            *)

\* the report an earlier version of the tables gave
EarlierReport == File(NoHtml)

RunsFiles ==
    FilesOf({<<>>}, {<<>>, <<Row(Text(NameArte), Text(<<"9">>), Text(<<"1","5","5">>), SubjectsPresent)>>},
            {<<CompanionRow>>,
             <<CompanionRow,
               Row(Text(NameArte), Text(<<"2","1">>), Text(<<"1","6","0">>), SubjectsPresent)>>})

RunsDisks ==
    {[sources |-> src, report |-> rep, backup_dir |-> dir,
      backups |-> [t \in {} |-> NoFile]] :
        src \in {Years, Years \ {"2023"}},
        rep \in {NoFile, EarlierReport},
        dir \in BOOLEAN}

RunsFaults == {{}, {"move"}, {"open"}, {"write"}}

InitRuns == InitOn(RunsFiles, RunsDisks, RunsFaults)

NextRuns == Next \/ Rerun

SpecRuns == InitRuns /\ [][NextRuns]_vars

----------------------------------------------------------------------------
(* Properties *)

\* the list has been built and sorted
Consolidated == pc \in {"calculate", "statistics", "render", "backup", "write", "done"}

\* every record carries its trends and categories
Calculated == pc \in {"statistics", "render", "backup", "write", "done"}

Records == {schools_data[i] : i \in 1..Len(schools_data)}

\* the rows of the studied school of SpecRecord, per year
StudiedRows(y) == SelectSeq(files[y], LAMBDA r : r.Kool = Text(NameArte))

\* the category the breakpoints 250, 200 and 150 give to the cells of KokkuCells
ExpectedCategory(cell) ==
    CASE cell \in {NaN, Text(<<EMDASH>>), Text(<<"x">>)} -> "no-data"
      [] cell \in {Text(<<"2","5","0",",","0">>)} -> "excellent"
      [] cell \in {Text(<<"2","4","9",",","9">>), Text(<<"2","0","0">>)} -> "very-good"
      [] cell \in {Text(<<"1","9","9",",","9">>), Text(<<"1","5","0">>)} -> "good"
      [] cell \in {Text(<<"1","4","9",",","9">>), Text(<<"0">>)} -> "average"

\* C1: the category of every record is decided by its 2024 total score alone:
\* at least 250 excellent, at least 200 very-good, at least 150 good, any
\* other score average, no score no-data; 250, 200 and 150 fall in the
\* higher tier.
CategoryFromRecentScore ==
    Calculated =>
        /\ \A s \in Records :
              LET k == s.Kokku_2024
              IN  /\ (s.category = "no-data") <=> ~k.some
                  /\ (s.category = "excellent") <=> (k.some /\ k.v >= 25000)
                  /\ (s.category = "very-good") <=> (k.some /\ 20000 <= k.v /\ k.v < 25000)
                  /\ (s.category = "good") <=> (k.some /\ 15000 <= k.v /\ k.v < 20000)
                  /\ (s.category = "average") <=> (k.some /\ k.v < 15000)
        /\ \A s \in Records :
              (s.School = NameArte /\ StudiedRows("2024") /= <<>>)
                  => s.category = ExpectedCategory(StudiedRows("2024")[1].Kokku)

CategoryBoundaryReached ==
    /\ pc = "done"
    /\ \E s \in Records :
          /\ s.School = NameArte
          /\ s.Kokku_2024 = Some(25000)
          /\ s.category = "excellent"
    /\ \E s \in Records : s.Kokku_2024 = Some(16000) /\ s.category = "good"

\* C2: the trend category of every record is improving iff its 1-year rank
\* trend is above 5, declining iff it is below -5, and stable otherwise; a
\* trend of exactly 5 or -5 and an absent trend are stable.
TrendCategoryFromRankTrend ==
    Calculated =>
        /\ \A s \in Records :
              LET t == s.place_change_1yr
              IN  /\ (s.trend_cat = "improving") <=> (t.some /\ t.v > 5)
                  /\ (s.trend_cat = "declining") <=> (t.some /\ t.v < -5)
                  /\ (s.trend_cat = "stable") <=> (~t.some \/ (-5 <= t.v /\ t.v <= 5))
        /\ \A s \in Records :
              (s.School = NameArte /\ StudiedRows("2023") /= <<>> /\ StudiedRows("2024") /= <<>>)
                  => LET older == StudiedRows("2023")[1].Place
                         recent == StudiedRows("2024")[1].Place
                     IN  /\ (older = Text(<<"1","4">>) /\ recent = Text(<<"9">>))
                             => s.trend_cat = "stable"
                         /\ (older = Text(<<"3">>) /\ recent = Text(<<"8",".","0">>))
                             => s.trend_cat = "stable"
                         /\ (older = Text(<<"1","4">>) /\ recent = Text(<<"8",".","0">>))
                             => s.trend_cat = "improving"
                         /\ (older = Text(<<"3">>) /\ recent = Text(<<"9">>))
                             => s.trend_cat = "declining"
                         /\ (older = Text(<<EMDASH>>) \/ recent \in {NaN, Text(<<EMDASH>>), Text(<<"x">>)})
                             => s.trend_cat = "stable"

TrendThresholdReached ==
    /\ pc = "done"
    /\ \E s \in Records : s.place_change_1yr = Some(5) /\ s.trend_cat = "stable"
    /\ \E s \in Records : ~s.place_change_1yr.some /\ s.trend_cat = "stable"

\* the difference of two optional numbers, absent unless both are present
Difference(minuend, subtrahend) ==
    IF minuend.some /\ subtrahend.some THEN Some(minuend.v - subtrahend.v) ELSE None

\* C3: for 2024 against 2023 and 2024 against 2018, the score trend is the
\* recent score minus the older score whenever both are present, a score of
\* 0 included, and absent otherwise; the rank trend is the older rank minus
\* the recent rank whenever both are present and absent otherwise.
TrendsFromPresentValues ==
    Calculated =>
        \A s \in Records :
            /\ s.trend_1yr = Difference(s.Kokku_2024, s.Kokku_2023)
            /\ s.trend_6yr = Difference(s.Kokku_2024, s.Kokku_2018)
            /\ s.place_change_1yr = Difference(PyInt(s.Place_2023), PyInt(s.Place_2024))
            /\ s.place_change_6yr = Difference(PyInt(s.Place_2018), PyInt(s.Place_2024))

\* C4: the consolidated list is in descending order of 2024 total score and
\* every record without a 2024 score comes after every record with one,
\* whatever that score is.
SortedByRecentScoreAbsentLast ==
    Consolidated =>
        \A i, j \in 1..Len(schools_data) :
            i < j =>
                LET a == schools_data[i].Kokku_2024
                    b == schools_data[j].Kokku_2024
                IN  /\ (a.some /\ b.some) => a.v >= b.v
                    /\ b.some => a.some

\* the field of record s that holds a year's value
PlaceIn(s, y) ==
    CASE y = "2018" -> s.Place_2018 [] y = "2023" -> s.Place_2023 [] y = "2024" -> s.Place_2024

ScoresIn(s, y) ==
    CASE y = "2018" -> <<s.Kokku_2018, s.Math_2018, s.Estonian_2018, s.English_2018>>
      [] y = "2023" -> <<s.Kokku_2023, s.Math_2023, s.Estonian_2023, s.English_2023>>
      [] y = "2024" -> <<s.Kokku_2024, s.Math_2024, s.Estonian_2024, s.English_2024>>

DatasetNames == UNION {DOMAIN data[y] : y \in Years}

\* C5: merging gives exactly one record per name of any year's dataset:
\* disjoint datasets give as many records as they have names together, and a
\* name of several years gives one record with each of those years' rank and
\* scores and absent values for the other years.
OneRecordPerName ==
    Consolidated =>
        /\ {s.School : s \in Records} = DatasetNames
        /\ Len(schools_data) = Cardinality(DatasetNames)
        /\ (\A y, z \in Years : y /= z => (DOMAIN data[y]) \cap (DOMAIN data[z]) = {})
              => Len(schools_data) = Cardinality(DOMAIN data["2018"])
                                     + Cardinality(DOMAIN data["2023"])
                                     + Cardinality(DOMAIN data["2024"])
        /\ \A s \in Records : \A y \in Years :
              IF s.School \in DOMAIN data[y]
              THEN LET d == data[y][s.School]
                   IN  /\ PlaceIn(s, y) = d.Place.s
                       /\ ScoresIn(s, y) = <<d.Kokku, d.Math, d.Estonian, d.English>>
              ELSE /\ PlaceIn(s, y) = <<EMDASH>>
                   /\ ScoresIn(s, y) = <<None, None, None, None>>

MergedAcrossYears ==
    /\ pc = "done"
    /\ Len(schools_data) = 3
    /\ \E s \in Records :
          /\ s.Kokku_2018 = Some(21150) /\ s.Place_2018 = <<"1","1">>
          /\ ~s.Kokku_2023.some
          /\ s.Kokku_2024 = Some(23150) /\ s.Place_2024 = <<"3","1">>

\* a record that qualifies for the "Excellent & Accessible" list
Eligible(s) ==
    /\ s.category = "very-good"
    /\ s.Kokku_2024.some
    /\ ~matches_any(accessible_competitive, s.School)
    /\ ~is_private_school(s.School)

RecordNamed(name) == CHOOSE s \in Records : s.School = name

\* C10: the "Excellent & Accessible" list holds the first 3 (or all, if
\* fewer) of the very-good, scored, non-competitive, non-private records by
\* 2024 score descending.
ExcellentAccessibleTopThree ==
    pc = "done" =>
        LET eligible == {s \in Records : Eligible(s)}
            listed == html.rec_excellent
            listedNames == {listed[i].School : i \in 1..Len(listed)}
        IN  /\ Len(listed) = (IF Cardinality(eligible) < 3 THEN Cardinality(eligible) ELSE 3)
            /\ Cardinality(listedNames) = Len(listed)
            /\ \A n \in listedNames : \E s \in eligible : s.School = n
            /\ \A i, j \in 1..Len(listed) :
                  i < j => RecordNamed(listed[i].School).Kokku_2024.v
                              >= RecordNamed(listed[j].School).Kokku_2024.v
            /\ \A s \in eligible : \A n \in listedNames :
                  s.School \notin listedNames
                      => RecordNamed(n).Kokku_2024.v >= s.Kokku_2024.v

TopThreeCutReached ==
    /\ pc = "done"
    /\ Len(html.rec_excellent) = 3
    /\ Cardinality({s \in Records : Eligible(s)}) = 4
    /\ \E s \in Records :
          /\ s.School = NameReaalkool
          /\ s.category = "very-good"
          /\ s.Kokku_2024.v > RecordNamed(html.rec_excellent[1].School).Kokku_2024.v

\* every row of every file
AllRows == UNION {{files[y][i] : i \in 1..Len(files[y])} : y \in Years}

\* rows that carry a name, and whose names differ at most in letter case
SameLetters(r1, r2) ==
    /\ ~r1.Kool.nan /\ ~r2.Kool.nan
    /\ lower(r1.Kool.s) = lower(r2.Kool.s)

KeyNormalizerIdempotent ==
    /\ normalize_school_name(NaN) = <<>>
    /\ normalize_school_name(Text(<<>>)) = <<>>
    /\ pc \notin {"read_2018", "read_2023", "read_2024"} =>
          \A k \in DatasetNames : normalize_school_name(Text(k)) = k

\* a cell that holds no number
Unparseable(cell) == cell.nan \/ ~PyFloat(replace_char(cell.s, ",", ".")).some

\* C8: a rank, total score or subject score that cannot be parsed as a
\* number is absent in the record, exactly like an em dash or an empty
\* field, and the rows after it are still read.
UnparseableIsAbsent ==
    (Consolidated /\ StudiedRows("2024") /= <<>>) =>
        LET r == StudiedRows("2024")[1]
            s == RecordNamed(NameArte)
        IN  /\ \E t \in Records : t.School = NameKeskkool /\ t.Kokku_2024 = Some(16000)
            /\ Unparseable(r.Place) => s.Place_2024 = <<EMDASH>>
            /\ Unparseable(r.Kokku) => s.Kokku_2024 = None
            /\ Unparseable(r.Matemaatika) => s.Math_2024 = None
            /\ Unparseable(r.EestiKeel) => s.Estonian_2024 = None
            /\ Unparseable(r.IngliseKeel) => s.English_2024 = None

\* C8 as amended: an unparseable total or subject score is absent in the
\* record; an unparseable rank is kept as its text (an empty or em-dash rank
\* is the em dash) and counts as absent only in the rank trends; the rows
\* after it are still read.
UnparseableScoreAbsentRankKept ==
    (Consolidated /\ StudiedRows("2024") /= <<>>) =>
        LET r == StudiedRows("2024")[1]
            s == RecordNamed(NameArte)
        IN  /\ \E t \in Records : t.School = NameKeskkool /\ t.Kokku_2024 = Some(16000)
            /\ Unparseable(r.Place) =>
                  /\ s.Place_2024 = (IF r.Place \in {NaN, Text(<<EMDASH>>)}
                                     THEN <<EMDASH>> ELSE r.Place.s)
                  /\ Calculated => (s.place_change_1yr = None /\ s.place_change_6yr = None)
            /\ Unparseable(r.Kokku) => s.Kokku_2024 = None
            /\ Unparseable(r.Matemaatika) => s.Math_2024 = None
            /\ Unparseable(r.EestiKeel) => s.Estonian_2024 = None
            /\ Unparseable(r.IngliseKeel) => s.English_2024 = None

UnparseableCellsRead ==
    /\ pc = "done"
    /\ StudiedRows("2024") /= <<>>
    /\ StudiedRows("2024")[1].Place = Text(<<"x">>)
    /\ StudiedRows("2024")[1].Kokku = Text(<<"x">>)
    /\ StudiedRows("2024")[1].IngliseKeel = Text(<<"x">>)
    /\ RecordNamed(NameArte).Place_2024 = <<"x">>
    /\ RecordNamed(NameArte).Kokku_2024 = None
    /\ RecordNamed(NameArte).English_2024 = None
    /\ \E t \in Records : t.School = NameKeskkool

\* the entries of the three recommendation lists
ListEntries ==
    {html.rec_excellent[i] : i \in 1..Len(html.rec_excellent)}
        \cup {html.rec_improving[i] : i \in 1..Len(html.rec_improving)}
        \cup {html.rec_solid[i] : i \in 1..Len(html.rec_solid)}

\* C9: every absent score or rank the report shows, in the cells of the full
\* table and in the rank of a recommendation entry, is shown as the em dash.
AbsentShownAsDash ==
    pc = "done" =>
        /\ \A i \in 1..Len(html.table) :
              LET row == html.table[i]
                  s == schools_data[i]
              IN  /\ ~s.Kokku_2024.some => row.total = <<EMDASH>>
                  /\ ~s.Math_2024.some => row.math = <<EMDASH>>
                  /\ ~s.Estonian_2024.some => row.estonian = <<EMDASH>>
                  /\ ~s.English_2024.some => row.english = <<EMDASH>>
                  /\ s.Place_2018 = <<EMDASH>> => row.place_2018 = <<EMDASH>>
                  /\ s.Place_2023 = <<EMDASH>> => row.place_2023 = <<EMDASH>>
                  /\ s.Place_2024 = <<EMDASH>> => row.place_2024 = <<EMDASH>>
        /\ \A e \in ListEntries :
              RecordNamed(e.School).Place_2024 = <<EMDASH>> => e.national_rank = <<EMDASH>>

\* C9 as amended: in the full table every absent score or rank (an empty or
\* em-dash cell, or no row for the year) is shown as the em dash and every
\* present one as its own text; in a recommendation entry an absent rank is
\* shown as N/A; the summary card shows 0,0 when no school has a 2024 score.
AbsentShownAsDashOrNotAvailable ==
    pc = "done" =>
        /\ \A i \in 1..Len(html.table) :
              LET row == html.table[i]
                  s == schools_data[i]
              IN  /\ (row.total = <<EMDASH>>) <=> ~s.Kokku_2024.some
                  /\ (row.math = <<EMDASH>>) <=> ~s.Math_2024.some
                  /\ (row.estonian = <<EMDASH>>) <=> ~s.Estonian_2024.some
                  /\ (row.english = <<EMDASH>>) <=> ~s.English_2024.some
                  /\ row.place_2018 = s.Place_2018
                  /\ row.place_2023 = s.Place_2023
                  /\ row.place_2024 = s.Place_2024
        /\ \A i \in 1..Len(html.table) :
              (html.table[i].school_name = NameArte /\ StudiedRows("2024") /= <<>>)
                  => LET r == StudiedRows("2024")[1]
                     IN  /\ r.Kokku \in {NaN, Text(<<EMDASH>>)} => html.table[i].total = <<EMDASH>>
                         /\ r.Place \in {NaN, Text(<<EMDASH>>)} => html.table[i].place_2024 = <<EMDASH>>
                         /\ r.Kokku = Text(<<"0">>) => html.table[i].total = <<"0",",","0">>
        /\ \A e \in ListEntries :
              e.national_rank = (IF RecordNamed(e.School).Place_2024 = <<EMDASH>>
                                 THEN NOT_AVAILABLE
                                 ELSE RecordNamed(e.School).Place_2024)
        /\ (\A s \in Records : ~s.Kokku_2024.some) => html.best_score = <<"0",",","0">>

AbsentRankListed ==
    /\ pc = "done"
    /\ \E i \in 1..Len(html.rec_excellent) :
          /\ html.rec_excellent[i].School = NameArte
          /\ html.rec_excellent[i].national_rank = NOT_AVAILABLE
    /\ \E i \in 1..Len(html.table) :
          /\ html.table[i].school_name = NameArte
          /\ html.table[i].place_2024 = <<EMDASH>>
          /\ html.table[i].math = <<EMDASH>>

\* C11: in the full table, a school whose name matches both a private-school
\* marker and a highly-competitive marker has the row class private-school,
\* the briefcase tag and the label 'Private School', never those of the
\* highly-competitive branch.
PrivateBranchFirst ==
    pc = "done" =>
        \A i \in 1..Len(html.table) :
            LET name == schools_data[i].School
            IN  (/\ \E m \in PRIVATE_SCHOOLS : Contains(m, normalize(name))
                 /\ \E m \in highly_competitive : Contains(m, name))
                    => /\ html.table[i].school_name = name
                       /\ html.table[i].row_class = "private-school"
                       /\ html.table[i].name_tag = "briefcase"
                       /\ html.table[i].performance = "Private School"

PrivateAndCompetitiveRowed ==
    /\ pc = "done"
    /\ \E i \in 1..Len(html.table) :
          /\ html.table[i].school_name = NameRoccaReaalkool
          /\ html.table[i].performance = "Private School"
    /\ \E i \in 1..Len(html.table) :
          /\ html.table[i].school_name = NameReaalkool
          /\ html.table[i].performance = "Highly Competitive"

\* the report the script renders when the set of names is iterated in this order
ReportFor(order) ==
    LET built == [i \in 1..Len(order) |-> school_record(data, order[i])]
        sorted == sort_desc(built, sort_keys(built))
        calculated == [i \in 1..Len(sorted) |-> calculate(sorted[i])]
    IN  render(calculated, statistics(calculated))

\* C12: the report is a function of the three tables: whatever order the
\* union of the school names is iterated in, equal and absent 2024 scores
\* included, the script renders the same report.
ReportDeterminedByTables ==
    pc = "done" =>
        \A order \in Orders(all_schools(data)) :
            /\ html = ReportFor(order)
            /\ disk.report = File(ReportFor(order))

\* the names in the backup directory
BackupNames(d) == DOMAIN d.backups

\* C13: in a sequence of successful runs over unchanged tables, every run
\* adds exactly one new file to the backup directory, the previous report
\* under a timestamped name, before the new report is written.
OneNewBackupPerRun ==
    (pc \in {"write", "done"} /\ faults = {}) =>
        /\ Cardinality(BackupNames(disk)) = Cardinality(BackupNames(started)) + 1
        /\ \E t \in BackupNames(disk) \ BackupNames(started) :
              disk.backups[t] = started.report

\* C13 as the script has it: a run that finds a previous report moves it
\* into the backup directory under the name of the second read from the
\* clock, before the new report is written; that is one new file unless a
\* backup of the same second is there, which it replaces.  A run that
\* finds no previous report leaves the backup directory as it was.
BackupOfPreviousReport ==
    (pc \in {"write", "done"} /\ faults = {}) =>
        /\ started.report.exists =>
              /\ disk.backup_dir
              /\ BackupNames(disk) = BackupNames(started) \cup {clock}
              /\ disk.backups[clock] = started.report
              /\ \A t \in BackupNames(started) \ {clock} :
                    disk.backups[t] = started.backups[t]
              /\ clock \notin BackupNames(started) =>
                    Cardinality(BackupNames(disk)) = Cardinality(BackupNames(started)) + 1
              /\ clock \in BackupNames(started) =>
                    Cardinality(BackupNames(disk)) = Cardinality(BackupNames(started))
        /\ ~started.report.exists =>
              /\ disk.backups = started.backups
              /\ disk.backup_dir = started.backup_dir
        /\ pc = "write" => ~disk.report.exists
        /\ pc = "done" => disk.report = File(html)

SecondRunBackedUpFirst ==
    /\ pc = "done"
    /\ faults = {}
    /\ run = 2
    /\ started.report.complete
    /\ started.report.content.total_schools = 2
    /\ started.report.content = html
    /\ Cardinality(BackupNames(started)) = 1
    /\ Cardinality(BackupNames(disk)) = 2
    /\ disk.backups[clock] = started.report

\* C14: a run is all-or-nothing: it ends with the report written, or it
\* fails (a table missing, the move of the previous report failing, the
\* write of the report failing) and then the disk is as the run found it:
\* no new or partial report, no file or directory created, moved or changed.
RunIsAllOrNothing ==
    /\ pc = "done" => disk.report = File(html)
    /\ pc = "failed" => disk = started

\* digits, a comma and exactly one more digit, after a minus sign or none
OneFractionalDigit(t) ==
    LET body == IF t /= <<>> /\ t[1] = "-" THEN Tail(t) ELSE t
    IN  /\ Len(body) >= 3
        /\ body[Len(body) - 1] = ","
        /\ IsDigit(body[Len(body)])
        /\ AllDigits(SubSeq(body, 1, Len(body) - 2))

\* the distance of two floats, in hundredths
Distance(x, y) == IF x >= y THEN x - y ELSE y - x

\* C15: parsing and formatting round-trip: for a valid decimal-comma cell,
\* the formatted score has exactly one fractional digit after a comma, and
\* parsing it gives the parsed cell to one decimal place (the parsed cell
\* itself when that has no second fractional digit).
ScoreRoundTrip ==
    pc = "done" =>
        \A i \in 1..Len(html.table) :
            LET parsed == parse_decimal_comma(files["2024"][1].Kokku)
                shown == html.table[i].total
                back == parse_decimal_comma(Text(shown))
            IN  /\ parsed.some
                /\ schools_data[i].Kokku_2024 = parsed
                /\ OneFractionalDigit(shown)
                /\ back.some
                /\ back.v % 10 = 0
                /\ Distance(back.v, parsed.v) <= 5
                /\ parsed.v % 10 = 0 => back.v = parsed.v
                /\ parse_decimal_comma(Text(format_score(back))) = back

SecondDigitRounded ==
    /\ pc = "done"
    /\ Len(html.table) = 1
    /\ files["2024"][1].Kokku = Text(<<"2","5","0",",","5","6">>)
    /\ schools_data[1].Kokku_2024 = Some(25056)
    /\ html.table[1].total = <<"2","5","0",",","6">>

\* the rows of a year's table whose name normalizes to this key
RowsNamed(y, key) ==
    {i \in 1..Len(files[y]) : normalize_school_name(files[y][i].Kool) = key}

\* the table of year y has been read
WasRead(y) ==
    CASE y = "2018" -> pc \notin {"read_2018", "failed"}
      [] y = "2023" -> pc \notin {"read_2018", "read_2023", "failed"}
      [] y = "2024" -> pc \notin {"read_2018", "read_2023", "read_2024", "failed"}

\* C16: within one year's table, when several rows have the same normalized
\* school name, the dataset of that year holds one entry for the name, with
\* the rank and every score of the last such row in file order.
LastRowWins ==
    \A y \in Years :
        WasRead(y) =>
            /\ DOMAIN data[y] =
                  {key \in {normalize_school_name(files[y][i].Kool) : i \in 1..Len(files[y])} :
                      key /= <<>> /\ is_tallinn_school(key)}
            /\ \A key \in DOMAIN data[y] :
                  LET last == CHOOSE i \in RowsNamed(y, key) :
                                  \A j \in RowsNamed(y, key) : j <= i
                      row == files[y][last]
                  IN  /\ data[y][key].Place = row.Place
                      /\ data[y][key].Kokku = parse_decimal_comma(row.Kokku)
                      /\ data[y][key].Math = parse_decimal_comma(row.Matemaatika)
                      /\ data[y][key].Estonian = parse_decimal_comma(row.EestiKeel)
                      /\ data[y][key].English = parse_decimal_comma(row.IngliseKeel)
            /\ Consolidated =>
                  \A key \in DOMAIN data[y] :
                      Cardinality({i \in 1..Len(schools_data) :
                                      schools_data[i].School = key}) = 1

DuplicateRowsRead ==
    /\ pc = "done"
    /\ Len(files["2024"]) = 3
    /\ files["2024"][1].Kool = Text(NameArte)
    /\ files["2024"][1].Kokku = Text(<<EMDASH>>)
    /\ files["2024"][2].Kool = Text(NameKeskkool)
    /\ files["2024"][3].Kool = Text(<<" ", SHY>> \o NameArte)
    /\ files["2024"][3].Kokku = Text(<<"2","1","0",",","5">>)
    /\ DOMAIN data["2024"] = {NameArte, NameKeskkool}
    /\ data["2024"][NameArte].Kokku = Some(21050)
    /\ data["2024"][NameArte].Place = Text(<<"3">>)

\* the schools named in the "Excellent & Accessible" list of the report
ListedExcellent == {html.rec_excellent[k].School : k \in 1..Len(html.rec_excellent)}

\* C17: the highly-competitive test of the "Excellent & Accessible" list and
\* the one of the full table agree on every school: the two marker lists
\* match the same names, and a very good, scored, public school is kept out
\* of the list exactly when its table row is labelled 'Highly Competitive'.
CompetitiveTestsAgree ==
    pc = "done" =>
        \A i \in 1..Len(html.table) :
            LET s == schools_data[i]
            IN  /\ (\E m \in accessible_competitive : Contains(m, s.School))
                       <=> (\E m \in highly_competitive : Contains(m, s.School))
                /\ (/\ s.category = "very-good"
                     /\ Truthy(s.Kokku_2024)
                     /\ ~s.is_private
                     /\ Len(html.table) <= 3)
                       => ((s.School \notin ListedExcellent)
                              <=> html.table[i].performance = "Highly Competitive")

====
